---- MODULE Spec2Model ----
(***************************************************************************)
(* UFLA-RISC instructional simulator: decoder, ALU, control unit, flags,   *)
(* register bank, memory and the processor that sequences them.            *)
(*                                                                         *)
(* Representation of integers.  The program works on Python integers that  *)
(* it masks to 32 bits.  TLC's integers are 32-bit signed, so a Python     *)
(* integer v is kept as the pair <<hi, lo>> with v = hi * 65536 + lo and   *)
(* 0 <= lo < 65536 (floor decomposition: hi < 0 for a negative v, and      *)
(* hi >= 65536 for a v that needs more than 32 bits).  A 32-bit word has   *)
(* 0 <= hi < 65536.  Addresses, register numbers, opcodes, immediates and  *)
(* the program counter are small and stay plain integers.                  *)
(***************************************************************************)
EXTENDS Integers, Sequences, FiniteSets, TLC

\* ------------------------------------------------------------------------
\* Opcodes (decoder.py, repeated in control_unit.py and alu.py)
\* ------------------------------------------------------------------------
ADD == 1
SUB == 2
ZERO == 3
XOR == 4
OR == 5
NOT == 6
AND == 7
SAL == 8
SAR == 9
SLL == 10
SLR == 11
COPY == 12
LOADH == 14
LOADL == 15
LW == 16
SW == 17
JAL == 18
JR == 19
JEQ == 20
JNE == 21
J == 22

\* The HALT instruction word 0xFFFFFFFF.
HALT == <<65535, 65535>>

\* The 'opcode' field of the decoded HALT variant.  The program stores the
\* word 0xFFFFFFFF there; it is only ever compared with the 8-bit opcodes
\* (never equal), so it is denoted by its 32-bit two's-complement reading.
HALT_OPCODE == -1

\* Python's None as the value of a local that otherwise holds a 32-bit value.
\* A dict is a record; a key whose value is None is left out of the record,
\* so "d[k] is not None" and "d.get(k) is not None" read k \in DOMAIN d.
None == <<>>

\* ------------------------------------------------------------------------
\* Integers as <<hi, lo>>
\* ------------------------------------------------------------------------
\* The pair of a small non-negative or negative integer n, |n| < 2^31.
Num(n) == <<n \div 65536, n % 65536>>

\* v & 0xFFFFFFFF
Mask32(v) == <<v[1] % 65536, v[2]>>

\* Variant: the high half is taken.
Mask16_alto(v) == v[1] % 65536

\* v & 0xFFFF
Mask16(v) == v[2]

\* v & 0x80000000 is non-zero
Bit31(v) == (v[1] \div 32768) % 2 = 1

\* a + b and a - b on Python integers
BigAdd(a, b) == LET l == a[2] + b[2] IN <<a[1] + b[1] + (l \div 65536), l % 65536>>

BigSub(a, b) == LET l == a[2] - b[2] IN <<(a[1] - b[1]) + (l \div 65536), l % 65536>>

\* v < 0, and v > 0xFFFFFFFF
BigNeg(v) == v[1] < 0

BigAbove32(v) == v[1] > 65535

\* Bitwise operations on non-negative integers below 2^16.
RECURSIVE BitAnd(_, _)
BitAnd(x, y) ==
    IF x = 0 \/ y = 0 THEN 0
    ELSE ((x % 2) * (y % 2)) + 2 * BitAnd(x \div 2, y \div 2)

RECURSIVE BitOr(_, _)
BitOr(x, y) ==
    IF x = 0 THEN y
    ELSE IF y = 0 THEN x
    ELSE (IF (x % 2) + (y % 2) > 0 THEN 1 ELSE 0) + 2 * BitOr(x \div 2, y \div 2)

RECURSIVE BitXor(_, _)
BitXor(x, y) ==
    IF x = 0 THEN y
    ELSE IF y = 0 THEN x
    ELSE (((x % 2) + (y % 2)) % 2) + 2 * BitXor(x \div 2, y \div 2)

\* a & b, a | b, a ^ b on 32-bit words
And32(a, b) == <<BitAnd(a[1], b[1]), BitAnd(a[2], b[2])>>

Or32(a, b) == <<BitOr(a[1], b[1]), BitOr(a[2], b[2])>>

Xor32(a, b) == <<BitXor(a[1], b[1]), BitXor(a[2], b[2])>>

\* (~a) & 0xFFFFFFFF for a 32-bit word a: ~a = -a - 1
Not32(a) == Mask32(<<(0 - a[1]) - 1, 65535 - a[2]>>)

\* (a << n) & 0xFFFFFFFF and a >> n for a 32-bit word a, one position at a
\* time (the unmasked a << n does not fit TLC's integers).
RECURSIVE Shl32(_, _)
Shl32(a, n) ==
    IF n = 0 THEN a
    ELSE Shl32(<<((a[1] * 2) + (a[2] \div 32768)) % 65536, (a[2] * 2) % 65536>>, n - 1)

RECURSIVE Shr32(_, _)
Shr32(a, n) ==
    IF n = 0 THEN a
    ELSE Shr32(<<a[1] \div 2, (a[2] \div 2) + ((a[1] % 2) * 32768)>>, n - 1)

\* ------------------------------------------------------------------------
\* ALU (alu.py)
\* ------------------------------------------------------------------------
\* Variant: COPY is missing from the table.
ALU_operacoes_semCopy == {ADD, SUB, ZERO, XOR, OR, NOT, AND, SAL, SAR, SLL, SLR}

\* The keys of ALU.operacoes.
ALU_operacoes == {ADD, SUB, ZERO, XOR, OR, NOT, AND, SAL, SAR, SLL, SLR, COPY}

\* A result tuple (resultado, carry, overflow).
Res(r, c, o) == [resultado |-> r, carry |-> c, overflow |-> o]

\* Variant: carry when the sum reaches 0xFFFFFFFF.
ALU_add_carryCedo(a, b) ==
    LET resultado == BigAdd(a, b)
        carry == BigAbove32(BigAdd(resultado, <<0, 1>>))
        overflow == (Bit31(a) = Bit31(b)) /\ (Bit31(a) # Bit31(resultado))
    IN  Res(Mask32(resultado), carry, overflow)

ALU_add(a, b) ==
    LET resultado == BigAdd(a, b)
        carry == BigAbove32(resultado)
        overflow == (Bit31(a) = Bit31(b)) /\ (Bit31(a) # Bit31(resultado))
    IN  Res(Mask32(resultado), carry, overflow)

\* Variant: overflow tested as in the addition.
ALU_sub_overflowSoma(a, b) ==
    LET resultado == BigSub(a, b)
        carry == BigNeg(resultado)
        overflow == (Bit31(a) = Bit31(b)) /\ (Bit31(a) # Bit31(resultado))
    IN  Res(Mask32(resultado), carry, overflow)

ALU_sub(a, b) ==
    LET resultado == BigSub(a, b)
        carry == BigNeg(resultado)
        overflow == (Bit31(a) # Bit31(b)) /\ (Bit31(a) # Bit31(resultado))
    IN  Res(Mask32(resultado), carry, overflow)

ALU_zero(a, b) == Res(<<0, 0>>, FALSE, FALSE)

ALU_xor(a, b) == Res(Mask32(Xor32(a, b)), FALSE, FALSE)

ALU_or(a, b) == Res(Mask32(Or32(a, b)), FALSE, FALSE)

ALU_not(a, b) == Res(Not32(a), FALSE, FALSE)

ALU_and(a, b) == Res(Mask32(And32(a, b)), FALSE, FALSE)

\* b & 0x1F
ShiftAmount(b) == b[2] % 32

\* Variant: the arithmetic left shift keeps bit 31 of a.
ALU_sal_mantemSinal(a, b) ==
    LET shift_amount == ShiftAmount(b)
        deslocado == Shl32(a, shift_amount)
    IN  IF shift_amount = 0 THEN Res(a, FALSE, FALSE)
        ELSE Res(<<(deslocado[1] % 32768) + (IF Bit31(a) THEN 32768 ELSE 0),
                   deslocado[2]>>, FALSE, FALSE)

ALU_sal(a, b) ==
    LET shift_amount == ShiftAmount(b)
    IN  IF shift_amount = 0 THEN Res(a, FALSE, FALSE)
        ELSE Res(Shl32(a, shift_amount), FALSE, FALSE)

\* Variant: the vacated bits are never filled.
ALU_sar_semSinal(a, b) ==
    LET shift_amount == ShiftAmount(b)
    IN  IF shift_amount = 0 THEN Res(a, FALSE, FALSE)
        ELSE Res(Mask32(Shr32(a, shift_amount)), FALSE, FALSE)

ALU_sar(a, b) ==
    LET shift_amount == ShiftAmount(b)
        eh_negativo == Bit31(a)
        deslocado == Shr32(a, shift_amount)
        mascara == Shl32(<<65535, 65535>>, 32 - shift_amount)
        resultado == IF eh_negativo THEN Or32(deslocado, mascara) ELSE deslocado
    IN  IF shift_amount = 0 THEN Res(a, FALSE, FALSE)
        ELSE Res(Mask32(resultado), FALSE, FALSE)

ALU_sll(a, b) ==
    LET shift_amount == ShiftAmount(b)
    IN  IF shift_amount = 0 THEN Res(a, FALSE, FALSE)
        ELSE Res(Shl32(a, shift_amount), FALSE, FALSE)

ALU_slr(a, b) ==
    LET shift_amount == ShiftAmount(b)
    IN  IF shift_amount = 0 THEN Res(a, FALSE, FALSE)
        ELSE Res(Mask32(Shr32(a, shift_amount)), FALSE, FALSE)

ALU_copy(a, b) == Res(a, FALSE, FALSE)

\* ALU.executar raises ValueError for an opcode outside ALU.operacoes.
ALU_executar_erro(opcode) == opcode \notin ALU_operacoes

ALU_executar(opcode, operando_a, operando_b) ==
    LET a == Mask32(operando_a)
        b == Mask32(operando_b)
    IN  CASE opcode = ADD -> ALU_add(a, b)
          [] opcode = SUB -> ALU_sub(a, b)
          [] opcode = ZERO -> ALU_zero(a, b)
          [] opcode = XOR -> ALU_xor(a, b)
          [] opcode = OR -> ALU_or(a, b)
          [] opcode = NOT -> ALU_not(a, b)
          [] opcode = AND -> ALU_and(a, b)
          [] opcode = SAL -> ALU_sal(a, b)
          [] opcode = SAR -> ALU_sar(a, b)
          [] opcode = SLL -> ALU_sll(a, b)
          [] opcode = SLR -> ALU_slr(a, b)
          [] opcode = COPY -> ALU_copy(a, b)

\* ------------------------------------------------------------------------
\* Flags (flags.py)
\* ------------------------------------------------------------------------
Flags_init == [neg |-> FALSE, zero |-> FALSE, carry |-> FALSE, overflow |-> FALSE]

\* Variant: negative taken from the sign of the integer, not from bit 31.
Flags_atualizar_flags_sinal(resultado, carry, overflow) ==
    LET resultado_32bits == Mask32(resultado)
    IN  [zero |-> (resultado_32bits = <<0, 0>>),
         neg |-> BigNeg(resultado_32bits),
         carry |-> carry,
         overflow |-> overflow]

Flags_atualizar_flags(resultado, carry, overflow) ==
    LET resultado_32bits == Mask32(resultado)
    IN  [zero |-> (resultado_32bits = <<0, 0>>),
         neg |-> Bit31(resultado_32bits),
         carry |-> carry,
         overflow |-> overflow]

Flags_limpar == [neg |-> FALSE, zero |-> FALSE, carry |-> FALSE, overflow |-> FALSE]

\* ------------------------------------------------------------------------
\* Register bank (registers.py)
\* ------------------------------------------------------------------------
NUM_REGISTRADORES == 32

REG_MAXIMO == NUM_REGISTRADORES - 1

Registradores_init == [i \in 0..REG_MAXIMO |-> <<0, 0>>]

\* ler and escrever raise ValueError for a register number outside 0..31.
Registradores_erro(num_reg) == num_reg < 0 \/ num_reg > REG_MAXIMO

Registradores_ler(regs, num_reg) ==
    IF num_reg = 0 THEN <<0, 0>> ELSE regs[num_reg]

\* Variant: the value is stored as it is.
Registradores_escrever_semMascara(regs, num_reg, valor) ==
    IF num_reg = 0 THEN regs
    ELSE [regs EXCEPT ![num_reg] = valor]

\* Variant: register 0 is written like any other.
Registradores_escrever_semR0(regs, num_reg, valor) ==
    [regs EXCEPT ![num_reg] = Mask32(valor)]

Registradores_escrever(regs, num_reg, valor) ==
    IF num_reg = 0 THEN regs
    ELSE [regs EXCEPT ![num_reg] = Mask32(valor)]

Registradores_dump(regs) ==
    [i \in 0..REG_MAXIMO |-> IF i = 0 THEN <<0, 0>> ELSE regs[i]]

Registradores_limpar == [i \in 0..REG_MAXIMO |-> <<0, 0>>]

\* ------------------------------------------------------------------------
\* Memory (memory.py)
\* ------------------------------------------------------------------------
\* The list of 65536 words is kept as the function from the addresses that
\* hold a non-zero word to that word; every other address holds 0.
TAMANHO_MEMORIA == 65536

ENDERECO_MAXIMO == TAMANHO_MEMORIA - 1

Memoria_init == <<>>

\* Variant: the address is compared with the size.
Memoria_erro_folgado(endereco) == endereco < 0 \/ endereco > TAMANHO_MEMORIA

\* ler and escrever raise ValueError for an address outside 0..65535.
Memoria_erro(endereco) == endereco < 0 \/ endereco > ENDERECO_MAXIMO

Memoria_ler(mem, endereco) ==
    IF endereco \in DOMAIN mem THEN mem[endereco] ELSE <<0, 0>>

\* memoria[endereco] = palavra
Memoria_por(mem, endereco, palavra) ==
    LET dom == IF palavra = <<0, 0>> THEN (DOMAIN mem) \ {endereco}
               ELSE (DOMAIN mem) \cup {endereco}
    IN  [e \in dom |-> IF e = endereco THEN palavra ELSE mem[e]]

Memoria_escrever(mem, endereco, dado) == Memoria_por(mem, endereco, Mask32(dado))

Memoria_limpar == <<>>

\* Memoria.carregar_programa.  instrucoes is a sequence whose elements are
\* integers (pairs) or NaoInteiro, a value of another type.  The range checks
\* come first; then the words are written one by one, and an element that is
\* not an integer raises TypeError at its index, after the writes before it.
NaoInteiro == "nao_inteiro"

\* Variant: the start address is compared with the size, not with the
\* largest address.
Memoria_carregar_erro_faixa_folgado(instrucoes, endereco_inicial) ==
    \/ endereco_inicial < 0
    \/ endereco_inicial > TAMANHO_MEMORIA
    \/ (endereco_inicial + Len(instrucoes)) - 1 > TAMANHO_MEMORIA

Memoria_carregar_erro_faixa(instrucoes, endereco_inicial) ==
    \/ endereco_inicial < 0
    \/ endereco_inicial > ENDERECO_MAXIMO
    \/ (endereco_inicial + Len(instrucoes)) - 1 > ENDERECO_MAXIMO

\* The index of the first element that is not an integer, or 0.
PrimeiroNaoInteiro(instrucoes) ==
    LET ruins == {i \in 1..Len(instrucoes) : instrucoes[i] = NaoInteiro}
    IN  IF ruins = {} THEN 0 ELSE CHOOSE i \in ruins : \A j \in ruins : i <= j

Memoria_carregar_erro(instrucoes, endereco_inicial) ==
    \/ Memoria_carregar_erro_faixa(instrucoes, endereco_inicial)
    \/ PrimeiroNaoInteiro(instrucoes) # 0

\* The memory after the first n elements were written.
RECURSIVE Memoria_carregar_ate(_, _, _, _)
Memoria_carregar_ate(mem, instrucoes, endereco_inicial, n) ==
    IF n = 0 THEN mem
    ELSE Memoria_escrever(
             Memoria_carregar_ate(mem, instrucoes, endereco_inicial, n - 1),
             (endereco_inicial + n) - 1, instrucoes[n])

\* The memory the call leaves, whether it returns or raises.
Memoria_carregar_programa(mem, instrucoes, endereco_inicial) ==
    IF Memoria_carregar_erro_faixa(instrucoes, endereco_inicial) THEN mem
    ELSE LET k == PrimeiroNaoInteiro(instrucoes)
         IN  Memoria_carregar_ate(mem, instrucoes, endereco_inicial,
                                  IF k = 0 THEN Len(instrucoes) ELSE k - 1)

\* ------------------------------------------------------------------------
\* Decoder (decoder.py)
\* ------------------------------------------------------------------------
\* Variant: opcode 0x0D is in the table, as an R instruction.
tipo_instrucao_com0D ==
    [op \in (1..22) |->
        IF op \in 1..13 THEN "R"
        ELSE IF op \in {14, 15, 16, 17} THEN "I"
        ELSE IF op \in {18, 22} THEN "J"
        ELSE IF op = 19 THEN "JR"
        ELSE "B"]

\* Decoder.tipo_instrucao: opcode -> instruction type.
tipo_instrucao ==
    [op \in {ADD, SUB, ZERO, XOR, OR, NOT, AND, SAL, SAR, SLL, SLR, COPY,
             LOADH, LOADL, LW, SW, JAL, J, JR, JEQ, JNE} |->
        IF op \in {ADD, SUB, ZERO, XOR, OR, NOT, AND, SAL, SAR, SLL, SLR, COPY} THEN "R"
        ELSE IF op \in {LOADH, LOADL, LW, SW} THEN "I"
        ELSE IF op \in {JAL, J} THEN "J"
        ELSE IF op = JR THEN "JR"
        ELSE "B"]

\* Field extraction, (instrucao & MASK) >> SHIFT, on the halves of the word.
\* opcode: bits 31-24
\* Variant: the opcode mask 0x7F000000.
Campo_opcode_7bits(w) == (w[1] \div 256) % 128

Campo_opcode(w) == w[1] \div 256

\* ra (and rc of a JR): bits 23-19
Campo_ra(w) == (w[1] % 256) \div 8

\* Variant: rb shifted by 15.
Campo_rb_deslocado(w) == ((w[1] % 8) * 2) + (w[2] \div 32768)

\* rb: bits 18-14
Campo_rb(w) == ((w[1] % 8) * 4) + (w[2] \div 16384)

\* rc: bits 13-9
Campo_rc(w) == (w[2] % 16384) \div 512

\* Variant: the immediate mask 0x0000FFF8.
Campo_immediate_baixo(w) == w[2] \div 8

\* immediate: bits 18-3
Campo_immediate(w) == ((w[1] % 8) * 8192) + (w[2] \div 8)

\* address: bits 23-8
\* Variant: the address taken from bits 15-0.
Campo_address_baixo(w) == w[2]

Campo_address(w) == ((w[1] % 256) * 256) + (w[2] \div 256)

\* Variant: the offset mask 0x00001FFF.
Campo_offset_13bits(w) == w[2] % 8192

\* offset: bits 13-0
Campo_offset(w) == w[2] % 16384

Decoder_decodificar_tipo_r(instrucao, opcode) ==
    [opcode |-> opcode, type |-> "R", ra |-> Campo_ra(instrucao),
     rb |-> Campo_rb(instrucao), rc |-> Campo_rc(instrucao)]

Decoder_decodificar_tipo_i(instrucao, opcode) ==
    [opcode |-> opcode, type |-> "I", ra |-> Campo_ra(instrucao),
     immediate |-> Campo_immediate(instrucao)]

Decoder_decodificar_tipo_j(instrucao, opcode) ==
    [opcode |-> opcode, type |-> "J", address |-> Campo_address(instrucao)]

Decoder_decodificar_tipo_jr(instrucao, opcode) ==
    [opcode |-> opcode, type |-> "JR", rc |-> Campo_ra(instrucao)]

\* Variant: the 14-bit field is returned as it is.
EstenderOffset_semSinal(offset) == offset

\* The signed value of the 14-bit offset: with bit 13 set the field is
\* or-ed with 0xFFFFC000 and, being above 0x7FFFFFFF, reduced by 2^32.
EstenderOffset(offset) ==
    IF BitAnd(offset, 8192) # 0
    THEN LET estendido == <<65535, BitOr(offset, 49152)>>
         IN  IF estendido[1] > 32767
             THEN ((estendido[1] - 65536) * 65536) + estendido[2]
             ELSE (estendido[1] * 65536) + estendido[2]
    ELSE offset

Decoder_decodificar_tipo_b(instrucao, opcode) ==
    [opcode |-> opcode, type |-> "B", ra |-> Campo_ra(instrucao),
     rb |-> Campo_rb(instrucao), offset |-> EstenderOffset(Campo_offset(instrucao))]

\* Variant: the opcode is looked up before HALT is recognised.
Decoder_erro_semHalt(instrucao_bruta) ==
    LET instrucao == Mask32(instrucao_bruta)
    IN  Campo_opcode(instrucao) \notin DOMAIN tipo_instrucao

\* Decoder.decodificar raises ValueError for an opcode outside the table.
Decoder_erro(instrucao_bruta) ==
    LET instrucao == Mask32(instrucao_bruta)
    IN  instrucao # HALT /\ Campo_opcode(instrucao) \notin DOMAIN tipo_instrucao

Decoder_decodificar(instrucao_bruta) ==
    LET instrucao == Mask32(instrucao_bruta)
        opcode == Campo_opcode(instrucao)
        tipo == tipo_instrucao[opcode]
    IN  IF instrucao = HALT
        THEN [opcode |-> HALT_OPCODE, type |-> "HALT"]
        ELSE CASE tipo = "R" -> Decoder_decodificar_tipo_r(instrucao, opcode)
               [] tipo = "I" -> Decoder_decodificar_tipo_i(instrucao, opcode)
               [] tipo = "J" -> Decoder_decodificar_tipo_j(instrucao, opcode)
               [] tipo = "JR" -> Decoder_decodificar_tipo_jr(instrucao, opcode)
               [] tipo = "B" -> Decoder_decodificar_tipo_b(instrucao, opcode)

\* ------------------------------------------------------------------------
\* Control unit (control_unit.py)
\* ------------------------------------------------------------------------
opcodes_alu == {ADD, SUB, ZERO, XOR, OR, NOT, AND, SAL, SAR, SLL, SLR, COPY}

opcodes_branch == {JEQ, JNE}

opcodes_jump == {JAL, J, JR}

\* Variant: alu_op starts as ADD.
sinais_padrao_comAlu ==
    [alu_op |-> ADD, reg_write |-> FALSE, mem_read |-> FALSE, mem_write |-> FALSE,
     mem_to_reg |-> FALSE, branch |-> FALSE, jump |-> FALSE, alu_src |-> "reg",
     pc_src |-> "inc", halt |-> FALSE]

\* Variant: alu_src starts as 'imm'.
sinais_padrao_imm ==
    [reg_write |-> FALSE, mem_read |-> FALSE, mem_write |-> FALSE,
     mem_to_reg |-> FALSE, branch |-> FALSE, jump |-> FALSE, alu_src |-> "imm",
     pc_src |-> "inc", halt |-> FALSE]

\* The default signal record (everything off; alu_op is None).
sinais_padrao ==
    [reg_write |-> FALSE, mem_read |-> FALSE, mem_write |-> FALSE,
     mem_to_reg |-> FALSE, branch |-> FALSE, jump |-> FALSE, alu_src |-> "reg",
     pc_src |-> "inc", halt |-> FALSE]

\* obter_sinais_controle raises ValueError when no branch of the chain matches.
ControlUnit_erro(d) ==
    /\ d.type # "HALT"
    /\ d.opcode \notin opcodes_alu
    /\ d.opcode \notin {LOADH, LOADL, LW, SW, JAL, JR, JEQ, JNE, J}

ControlUnit_obter_sinais_controle(d) ==
    LET opcode == d.opcode
        tipo == d.type
    IN  IF tipo = "HALT" THEN
            [sinais_padrao EXCEPT !.halt = TRUE, !.pc_src = "halt"]
        ELSE IF opcode \in opcodes_alu THEN
            [alu_op |-> opcode] @@
            [sinais_padrao EXCEPT !.reg_write = TRUE, !.alu_src = "reg", !.pc_src = "inc"]
        ELSE IF opcode = LOADH THEN
            [sinais_padrao EXCEPT !.reg_write = TRUE, !.alu_src = "imm", !.pc_src = "inc"]
        ELSE IF opcode = LOADL THEN
            [sinais_padrao EXCEPT !.reg_write = TRUE, !.alu_src = "imm", !.pc_src = "inc"]
        ELSE IF opcode = LW THEN
            [sinais_padrao EXCEPT !.mem_read = TRUE, !.reg_write = TRUE,
                                  !.mem_to_reg = TRUE, !.alu_src = "imm", !.pc_src = "inc"]
        ELSE IF opcode = SW THEN
            [sinais_padrao EXCEPT !.mem_write = TRUE, !.alu_src = "imm", !.pc_src = "inc"]
        ELSE IF opcode = JAL THEN
            [sinais_padrao EXCEPT !.jump = TRUE, !.reg_write = TRUE, !.pc_src = "jump"]
        ELSE IF opcode = JR THEN
            [sinais_padrao EXCEPT !.jump = TRUE, !.pc_src = "jump"]
        ELSE IF opcode = JEQ THEN
            [sinais_padrao EXCEPT !.branch = TRUE, !.alu_src = "reg", !.pc_src = "branch"]
        ELSE IF opcode = JNE THEN
            [sinais_padrao EXCEPT !.branch = TRUE, !.alu_src = "reg", !.pc_src = "branch"]
        ELSE
            [sinais_padrao EXCEPT !.jump = TRUE, !.pc_src = "jump"]

\* ------------------------------------------------------------------------
\* Processor (processor.py)
\* ------------------------------------------------------------------------
\* A processor is the record of its fields: pc, ir, halted, ciclos,
\* instrucoes, and the contents of its memoria, registradores and flags.
\* fault is the durable fault state of the step contract; the class has no
\* such field.
Processor_init ==
    [pc |-> 0, ir |-> <<0, 0>>, halted |-> FALSE, fault |-> FALSE,
     ciclos |-> 0, instrucoes |-> 0,
     memoria |-> Memoria_init, registradores |-> Registradores_init,
     flags |-> Flags_init]

\* Variant: pc is assigned before the memory is loaded.
Processor_carregar_programa_pcAntes(p, instrucoes, endereco_inicial) ==
    [p EXCEPT !.memoria =
                  Memoria_carregar_programa(p.memoria, instrucoes, endereco_inicial),
              !.pc = endereco_inicial]

\* Variant: a successful load also clears halted.
Processor_carregar_programa_religa(p, instrucoes, endereco_inicial) ==
    LET carregada == [p EXCEPT !.memoria =
                         Memoria_carregar_programa(p.memoria, instrucoes, endereco_inicial)]
    IN  IF Memoria_carregar_erro(instrucoes, endereco_inicial) THEN carregada
        ELSE [carregada EXCEPT !.pc = endereco_inicial, !.halted = FALSE]

\* Processor.carregar_programa: the memory is loaded first; pc is set only
\* when the load returned.
Processor_carregar_programa(p, instrucoes, endereco_inicial) ==
    LET carregada == [p EXCEPT !.memoria =
                         Memoria_carregar_programa(p.memoria, instrucoes, endereco_inicial)]
    IN  IF Memoria_carregar_erro(instrucoes, endereco_inicial) THEN carregada
        ELSE [carregada EXCEPT !.pc = endereco_inicial]

\* Variant: halted is left as it is.
Processor_resetar_semHalted(p) ==
    [p EXCEPT !.memoria = Memoria_limpar,
              !.registradores = Registradores_limpar,
              !.flags = Flags_limpar,
              !.pc = 0,
              !.ir = <<0, 0>>,
              !.fault = FALSE,
              !.ciclos = 0,
              !.instrucoes = 0]

Processor_resetar(p) ==
    [p EXCEPT !.memoria = Memoria_limpar,
              !.registradores = Registradores_limpar,
              !.flags = Flags_limpar,
              !.pc = 0,
              !.ir = <<0, 0>>,
              !.halted = FALSE,
              !.fault = FALSE,
              !.ciclos = 0,
              !.instrucoes = 0]

\* _stage_if: raises when memoria.ler(pc) does.
Processor_stage_if_erro(p) == Memoria_erro(p.pc)

\* Variant: pc is advanced before the word is read.
Processor_stage_if_buscaDepois(p) ==
    LET instrucao == Memoria_ler(p.memoria, (p.pc + 1) % 65536)
    IN  [p EXCEPT !.ir = instrucao, !.pc = (p.pc + 1) % 65536]

\* Variant: the fetch does not advance pc.
Processor_stage_if_semIncremento(p) ==
    LET instrucao == Memoria_ler(p.memoria, p.pc)
    IN  [p EXCEPT !.ir = instrucao]

Processor_stage_if(p) ==
    LET instrucao == Memoria_ler(p.memoria, p.pc)
    IN  [p EXCEPT !.ir = instrucao, !.pc = (p.pc + 1) % 65536]

\* Variant: an I instruction reads no register.
Processor_stage_id_semRa(p) ==
    LET instrucao_decodificada == Decoder_decodificar(p.ir)
        sinais_controle == ControlUnit_obter_sinais_controle(instrucao_decodificada)
        tipo == instrucao_decodificada.type
        temCampo(k) == k \in DOMAIN instrucao_decodificada
        ler(k) == Registradores_ler(p.registradores, instrucao_decodificada[k])
        operando_a ==
            IF tipo = "R" THEN (IF temCampo("rb") THEN ler("rb") ELSE None)
            ELSE IF tipo = "B" THEN (IF temCampo("ra") THEN ler("ra") ELSE None)
            ELSE IF tipo = "JR" THEN (IF temCampo("rc") THEN ler("rc") ELSE None)
            ELSE None
        operando_b ==
            IF tipo = "R" THEN (IF temCampo("rc") THEN ler("rc") ELSE None)
            ELSE IF tipo = "B" THEN (IF temCampo("rb") THEN ler("rb") ELSE None)
            ELSE None
    IN  [decoded |-> instrucao_decodificada,
         control_signals |-> sinais_controle,
         operand_a |-> operando_a,
         operand_b |-> operando_b]

\* _stage_id: raises when the decoder or the control unit does.
Processor_stage_id_erro(p) ==
    \/ Decoder_erro(p.ir)
    \/ ControlUnit_erro(Decoder_decodificar(p.ir))

Processor_stage_id(p) ==
    LET instrucao_decodificada == Decoder_decodificar(p.ir)
        sinais_controle == ControlUnit_obter_sinais_controle(instrucao_decodificada)
        tipo == instrucao_decodificada.type
        temCampo(k) == k \in DOMAIN instrucao_decodificada
        ler(k) == Registradores_ler(p.registradores, instrucao_decodificada[k])
        operando_a ==
            IF tipo = "R" THEN (IF temCampo("rb") THEN ler("rb") ELSE None)
            ELSE IF tipo = "I" THEN (IF temCampo("ra") THEN ler("ra") ELSE None)
            ELSE IF tipo = "B" THEN (IF temCampo("ra") THEN ler("ra") ELSE None)
            ELSE IF tipo = "JR" THEN (IF temCampo("rc") THEN ler("rc") ELSE None)
            ELSE None
        operando_b ==
            IF tipo = "R" THEN (IF temCampo("rc") THEN ler("rc") ELSE None)
            ELSE IF tipo = "B" THEN (IF temCampo("rb") THEN ler("rb") ELSE None)
            ELSE None
    IN  [decoded |-> instrucao_decodificada,
         control_signals |-> sinais_controle,
         operand_a |-> operando_a,
         operand_b |-> operando_b]

\* decoded.get(k, 0) for an integer field
Obter(decoded, k) == IF k \in DOMAIN decoded THEN decoded[k] ELSE 0

\* _stage_ex_mem raises when the ALU is given an opcode it lacks, or when the
\* memory or the register bank is given an index outside its range.
Processor_stage_ex_mem_erro(p, decoded, control_signals, operand_a, operand_b) ==
    \/ /\ "alu_op" \in DOMAIN control_signals
       /\ ALU_executar_erro(control_signals.alu_op)
    \/ /\ control_signals.mem_read \/ control_signals.mem_write
       /\ \/ Memoria_erro(Obter(decoded, "immediate") % 65536)
          \/ /\ ~control_signals.mem_read
             /\ "ra" \in DOMAIN decoded
             /\ Registradores_erro(decoded.ra)

\* _stage_ex_mem: the processor it leaves and the 'result' it returns.
Processor_stage_ex_mem(p, decoded, control_signals, operand_a, operand_b) ==
    LET opcode == decoded.opcode
        usa_alu == "alu_op" \in DOMAIN control_signals
        op_a == IF operand_a # None THEN operand_a ELSE <<0, 0>>
        op_b == IF operand_b # None THEN operand_b ELSE <<0, 0>>
        \* 1. ALU operation and flags
        alu == ALU_executar(control_signals.alu_op, op_a, op_b)
        resultado1 == IF usa_alu THEN alu.resultado ELSE None
        flags1 == IF usa_alu
                  THEN Flags_atualizar_flags(alu.resultado, alu.carry, alu.overflow)
                  ELSE p.flags
        \* 2. LW / SW
        imediato == Obter(decoded, "immediate")
        endereco_memoria == imediato % 65536
        acessa == control_signals.mem_read \/ control_signals.mem_write
        resultado2 == IF acessa /\ control_signals.mem_read
                      THEN Memoria_ler(p.memoria, endereco_memoria)
                      ELSE resultado1
        memoria2 == IF acessa /\ ~control_signals.mem_read /\ "ra" \in DOMAIN decoded
                    THEN Memoria_escrever(p.memoria, endereco_memoria,
                                          Registradores_ler(p.registradores, decoded.ra))
                    ELSE p.memoria
        \* 3. LOADH / LOADL
        valor_atual == op_a
        baixos == And32(valor_atual, <<0, 65535>>)
        altos == And32(valor_atual, <<65535, 0>>)
        resultado3 == IF opcode = LOADH THEN Or32(<<imediato % 65536, 0>>, baixos)
                      ELSE IF opcode = LOADL THEN Or32(altos, <<0, imediato % 65536>>)
                      ELSE resultado2
        \* 4. JEQ / JNE
        branch_tomado == /\ control_signals.branch
                         /\ \/ opcode = JEQ /\ op_a = op_b
                            \/ opcode = JNE /\ op_a # op_b
        pc4 == IF branch_tomado THEN (p.pc + Obter(decoded, "offset")) % 65536 ELSE p.pc
        \* 5. JAL / JR / J
        salta == control_signals.jump /\ opcode \in {JR, JAL, J}
        endereco_jump == IF opcode = JR
                         THEN (IF operand_a # None THEN Mask16(operand_a) ELSE 0)
                         ELSE Obter(decoded, "address")
        resultado5 == IF control_signals.jump /\ opcode = JAL THEN Num(pc4) ELSE resultado3
        pc5 == IF salta THEN endereco_jump % 65536 ELSE pc4
    IN  [p |-> [p EXCEPT !.flags = flags1, !.memoria = memoria2, !.pc = pc5],
         result |-> resultado5,
         branch_taken |-> branch_tomado]

\* Write-back of the step contract: with reg_write set, the step's result goes
\* to register 31 for JAL and to ra for every other instruction.
Processor_write_back(p, decoded, control_signals, resultado) ==
    IF control_signals.reg_write
    THEN [p EXCEPT !.registradores =
             Registradores_escrever(p.registradores,
                                    IF decoded.opcode = JAL THEN 31 ELSE decoded.ra,
                                    resultado)]
    ELSE p

\* Processor.passo, whose body the class leaves as "pass": the step of the
\* contract, fetch -> decode -> execute/memory -> write-back over the stage
\* methods above.  A halted or faulted processor executes nothing.  An error
\* raised by a stage puts the processor in the fault state, as the stage left
\* it.  A completed step counts one cycle and one instruction, and a HALT
\* instruction sets halted.
Processor_passo_erro(p) ==
    /\ ~p.halted
    /\ ~p.fault
    /\ \/ Processor_stage_if_erro(p)
       \/ LET p1 == Processor_stage_if(p)
          IN  \/ Processor_stage_id_erro(p1)
              \/ LET id == Processor_stage_id(p1)
                 IN  Processor_stage_ex_mem_erro(p1, id.decoded, id.control_signals,
                                                 id.operand_a, id.operand_b)

Processor_passo(p) ==
    IF p.halted \/ p.fault THEN p
    ELSE IF Processor_stage_if_erro(p) THEN [p EXCEPT !.fault = TRUE]
    ELSE LET p1 == Processor_stage_if(p)
         IN  IF Processor_stage_id_erro(p1) THEN [p1 EXCEPT !.fault = TRUE]
             ELSE LET id == Processor_stage_id(p1)
                      ex == Processor_stage_ex_mem(p1, id.decoded, id.control_signals,
                                                   id.operand_a, id.operand_b)
                      wb == Processor_write_back(ex.p, id.decoded, id.control_signals,
                                                 ex.result)
                  IN  IF Processor_stage_ex_mem_erro(p1, id.decoded, id.control_signals,
                                                     id.operand_a, id.operand_b)
                      THEN [p1 EXCEPT !.fault = TRUE]
                      ELSE [wb EXCEPT !.halted = id.control_signals.halt,
                                      !.ciclos = @ + 1,
                                      !.instrucoes = @ + 1]

\* ------------------------------------------------------------------------
\* Instruction words: the fields packed at the bit positions of the formats
\* ------------------------------------------------------------------------
\* R: opcode [31:24], ra [23:19], rb [18:14], rc [13:9]
Cod_R(op, ra, rb, rc) ==
    <<(op * 256) + (ra * 8) + (rb \div 4), ((rb % 4) * 16384) + (rc * 512)>>

\* I: opcode [31:24], ra [23:19], immediate [18:3]
Cod_I(op, ra, imm) ==
    <<(op * 256) + (ra * 8) + (imm \div 8192), (imm % 8192) * 8>>

\* J: opcode [31:24], address [23:8]
Cod_J(op, addr) == <<(op * 256) + (addr \div 256), (addr % 256) * 256>>

\* JR: opcode [31:24], rc [23:19]
Cod_JR(op, rc) == <<(op * 256) + (rc * 8), 0>>

\* B: opcode [31:24], ra [23:19], rb [18:14], offset [13:0] (the 14-bit field)
Cod_B(op, ra, rb, campo) ==
    <<(op * 256) + (ra * 8) + (rb \div 4), ((rb % 4) * 16384) + campo>>

\* ------------------------------------------------------------------------
\* Bounds and inputs
\* ------------------------------------------------------------------------
\* Calls made on one processor.
MaxOps == 3

\* Largest max_ciclos given to executar.
MaxExec == 2

\* The data word 0xABCD1234.
PalavraDado == <<43981, 4660>>

\* Words that are no instruction: opcodes 0x00, 0x0D, 0x17, 0xFF, and 0x81
\* over the fields of an R instruction.
PalavrasInvalidas ==
    {<<0, 0>>, <<3328, 0>>, <<5888, 1>>, <<65535, 65534>>, Cod_R(129, 2, 1, 1)}

PalavrasR ==
    {Cod_R(op, r[1], r[2], r[3]) :
        op \in opcodes_alu, r \in {<<2, 1, 1>>, <<3, 1, 2>>, <<0, 1, 2>>, <<1, 2, 1>>}}

PalavrasI ==
    {Cod_I(op, ra, imm) : op \in {LOADH, LOADL, LW, SW}, ra \in {0, 1, 3}, imm \in {7, 65535}}

PalavrasJ ==
    {Cod_J(op, addr) : op \in {JAL, J}, addr \in {0, 20, 65535}}
    \cup {Cod_JR(JR, rc) : rc \in {0, 1, 2, 31}}

PalavrasB ==
    {Cod_B(op, r[1], r[2], campo) :
        op \in {JEQ, JNE}, r \in {<<1, 1>>, <<1, 2>>, <<0, 3>>},
        campo \in {0, 5, 8191, 8192, 16383}}

PalavrasAmostra ==
    PalavrasR \cup PalavrasI \cup PalavrasJ \cup PalavrasB \cup PalavrasInvalidas \cup {HALT}

\* Register banks: R1 and R2 take the pairs below, R3 = 9, R31 = 0x00010002.
ParesAmostra ==
    {<<<<0, 5>>, <<0, 5>>>>, <<<<32767, 65535>>, <<0, 1>>>>, <<<<0, 0>>, <<0, 1>>>>,
     <<<<32768, 0>>, <<65535, 65535>>>>, <<<<65535, 65535>>, <<0, 33>>>>,
     <<<<0, 5>>, <<32768, 0>>>>}

RegistradoresAmostra ==
    {[Registradores_init EXCEPT ![1] = par[1], ![2] = par[2],
                                ![3] = <<0, 9>>, ![31] = <<1, 2>>] : par \in ParesAmostra}

\* Flags: all clear, and the flags 0x80000000 + 0x80000000 leaves.
FlagsAmostra ==
    {Flags_init, [neg |-> FALSE, zero |-> TRUE, carry |-> TRUE, overflow |-> TRUE]}

\* Fetch addresses.
PCsAmostra == {0, 10, 65535}

\* Programs given to carregar_programa and the addresses they are loaded at.
Programas ==
    {<<>>,
     <<HALT>>,
     <<Cod_I(LOADL, 0, 5), Cod_R(NOT, 0, 1, 1), HALT>>,
     <<Cod_J(JAL, 65535), Cod_I(LOADH, 1, 65535)>>,
     <<Cod_B(JEQ, 0, 0, 8192)>>,
     <<Cod_J(J, 0)>>,
     <<HALT, NaoInteiro>>}

Enderecos == {0 - 1, 0, 65535, 65536}

\* Calls of registradores.escrever: a register number and a value.
Escritas ==
    {<<0, <<0, 5>>>>, <<1, <<65535, 65535>>>>, <<1, <<65537, 2>>>>, <<32, <<0, 5>>>>}

\* ------------------------------------------------------------------------
\* State
\* ------------------------------------------------------------------------
VARIABLES
    pc, ir, halted, fault, ciclos, instrucoes,   \* Processor
    memoria, registradores, flags,               \* its collaborators' contents
    exec,      \* the executar call in progress: [ativo, max, feitos]
    ultima,    \* the last call: its name, whether it raised, its arguments
    antes,     \* the processor when the last call was made
    nOps       \* calls made so far

vars == <<pc, ir, halted, fault, ciclos, instrucoes, memoria, registradores, flags,
          exec, ultima, antes, nOps>>

\* The processor as a record, and the assignment of one to the next state.
Proc ==
    [pc |-> pc, ir |-> ir, halted |-> halted, fault |-> fault,
     ciclos |-> ciclos, instrucoes |-> instrucoes,
     memoria |-> memoria, registradores |-> registradores, flags |-> flags]

Fica(q) ==
    /\ pc' = q.pc
    /\ ir' = q.ir
    /\ halted' = q.halted
    /\ fault' = q.fault
    /\ ciclos' = q.ciclos
    /\ instrucoes' = q.instrucoes
    /\ memoria' = q.memoria
    /\ registradores' = q.registradores
    /\ flags' = q.flags

Parado == [ativo |-> FALSE, max |-> 0, feitos |-> 0]

Comeca(q) ==
    /\ pc = q.pc
    /\ ir = q.ir
    /\ halted = q.halted
    /\ fault = q.fault
    /\ ciclos = q.ciclos
    /\ instrucoes = q.instrucoes
    /\ memoria = q.memoria
    /\ registradores = q.registradores
    /\ flags = q.flags
    /\ exec = Parado
    /\ ultima = [op |-> "init", erro |-> FALSE]
    /\ antes = q
    /\ nOps = 0

\* A call can be made: no executar is in progress (the program is
\* single-threaded) and the bound on calls is not reached.
Livre == ~exec.ativo /\ nOps < MaxOps

Chamada(u) ==
    /\ ultima' = u
    /\ antes' = Proc
    /\ nOps' = nOps + 1

\* ------------------------------------------------------------------------
\* Operations
\* ------------------------------------------------------------------------
CarregarPrograma(instrucoes_, endereco_inicial) ==
    /\ Livre
    /\ Fica(Processor_carregar_programa(Proc, instrucoes_, endereco_inicial))
    /\ Chamada([op |-> "carregar_programa",
                erro |-> Memoria_carregar_erro(instrucoes_, endereco_inicial),
                instrucoes |-> instrucoes_, endereco |-> endereco_inicial])
    /\ UNCHANGED exec

EscreverRegistrador(num_reg, valor) ==
    /\ Livre
    /\ registradores' = IF Registradores_erro(num_reg) THEN registradores
                        ELSE Registradores_escrever(registradores, num_reg, valor)
    /\ Chamada([op |-> "escrever", erro |-> Registradores_erro(num_reg),
                num_reg |-> num_reg, valor |-> valor])
    /\ UNCHANGED <<pc, ir, halted, fault, ciclos, instrucoes, memoria, flags, exec>>

LimparRegistradores ==
    /\ Livre
    /\ registradores' = Registradores_limpar
    /\ Chamada([op |-> "limpar", erro |-> FALSE])
    /\ UNCHANGED <<pc, ir, halted, fault, ciclos, instrucoes, memoria, flags, exec>>

Passo ==
    /\ Livre
    /\ Fica(Processor_passo(Proc))
    /\ Chamada([op |-> "passo", erro |-> Processor_passo_erro(Proc)])
    /\ UNCHANGED exec

Resetar ==
    /\ Livre
    /\ Fica(Processor_resetar(Proc))
    /\ Chamada([op |-> "resetar", erro |-> FALSE])
    /\ UNCHANGED exec

\* Processor.executar, whose body the class leaves as "pass": the bounded loop
\* of the contract, which calls passo until the processor is halted or
\* faulted or max_ciclos steps were made.
ExecutarInicio(max_ciclos) ==
    /\ Livre
    /\ exec' = [ativo |-> TRUE, max |-> max_ciclos, feitos |-> 0]
    /\ Chamada([op |-> "executar", erro |-> FALSE, max |-> max_ciclos])
    /\ UNCHANGED <<pc, ir, halted, fault, ciclos, instrucoes, memoria, registradores, flags>>

\* Variant: the loop looks at the step count alone.
ExecutarContinua_semParada == exec.ativo /\ exec.feitos < exec.max

ExecutarContinua == exec.ativo /\ ~halted /\ ~fault /\ exec.feitos < exec.max

ExecutarIter ==
    /\ ExecutarContinua
    /\ Fica(Processor_passo(Proc))
    /\ exec' = [exec EXCEPT !.feitos = @ + 1]
    /\ ultima' = [ultima EXCEPT !.erro = Processor_passo_erro(Proc)]
    /\ UNCHANGED <<antes, nOps>>

ExecutarFim ==
    /\ exec.ativo
    /\ ~ExecutarContinua
    /\ exec' = [exec EXCEPT !.ativo = FALSE]
    /\ UNCHANGED <<pc, ir, halted, fault, ciclos, instrucoes, memoria, registradores,
                   flags, ultima, antes, nOps>>

\* A step of the executar loop, seen on exec alone: an iteration counted or
\* the return.
Andamento ==
    /\ exec.ativo
    /\ exec' \in {[exec EXCEPT !.feitos = @ + 1], [exec EXCEPT !.ativo = FALSE]}

\* executar runs to its end: the loop is the only code running, so a call in
\* progress takes its next step.
Justica == WF_exec(Andamento)

\* ------------------------------------------------------------------------
\* Specifications
\* ------------------------------------------------------------------------
\* The processor from its construction, under every sequence of calls.
Init == Comeca(Processor_init)

Next ==
    \/ \E i \in Programas, e \in Enderecos : CarregarPrograma(i, e)
    \/ \E w \in Escritas : EscreverRegistrador(w[1], w[2])
    \/ LimparRegistradores
    \/ Passo
    \/ Resetar
    \/ \E m \in 0..MaxExec : ExecutarInicio(m)
    \/ ExecutarIter
    \/ ExecutarFim

Spec == Init /\ [][Next]_vars

\* A program loaded on sampled register banks.  Then executar calls, each
\* run to its end.
InitExec ==
    \E i \in Programas, e \in {0, 65535}, r \in RegistradoresAmostra :
        /\ ~Memoria_carregar_erro(i, e)
        /\ Comeca(Processor_carregar_programa(
                      [Processor_init EXCEPT !.registradores = r], i, e))

NextExec ==
    \/ \E m \in 0..MaxExec : ExecutarInicio(m)
    \/ ExecutarIter
    \/ ExecutarFim

SpecExec == InitExec /\ [][NextExec]_vars /\ Justica

\* One instruction word at pc, a data word at address 7, on sampled register
\* banks and flags: states that escrever, definir_flag and carregar_programa
\* reach.  Then steps.
InitPasso ==
    \E a \in PCsAmostra, w \in PalavrasAmostra, r \in RegistradoresAmostra,
       f \in FlagsAmostra :
        Comeca([Processor_init EXCEPT
                    !.pc = a,
                    !.memoria = Memoria_por(Memoria_por(Memoria_init, 7, PalavraDado), a, w),
                    !.registradores = r,
                    !.flags = f])

NextPasso == Passo

SpecPasso == InitPasso /\ [][NextPasso]_vars

\* ------------------------------------------------------------------------
\* Properties
\* ------------------------------------------------------------------------
\* The last call was passo, made on a running processor.
PassoDado == ultima.op = "passo" /\ ~antes.halted /\ ~antes.fault

\* The word that step fetched.
Buscada == Memoria_ler(antes.memoria, antes.pc)

\* The 21 opcodes of the instruction set.
OpcodesValidos == (1..12) \cup (14..22)

C2_Halted ==
    /\ (ultima.op \in {"passo", "executar"} /\ antes.halted) => Proc = antes
    /\ (antes.halted /\ ~halted) => ultima.op = "resetar"

C2_Witness == ultima.op = "passo" /\ antes.halted /\ halted /\ nOps >= 3

\* C3: a step whose fetched word is not HALT and whose opcode is outside the
\* table raises; a step that raises leaves the processor in the fault state
\* with every register and every memory word as before the step.
C3_Fault ==
    /\ (PassoDado /\ Buscada # HALT /\ (Buscada[1] \div 256) \notin OpcodesValidos)
           => ultima.erro
    /\ (ultima.op = "passo" /\ ultima.erro) =>
           /\ fault
           /\ ~halted
           /\ registradores = antes.registradores
           /\ memoria = antes.memoria

C3_Witness ==
    /\ PassoDado
    /\ ultima.erro
    /\ fault
    /\ Buscada[1] \div 256 = 13
    /\ antes.registradores[1] # <<0, 0>>

C5_Jal ==
    (PassoDado /\ Buscada[1] \div 256 = 18) =>
        /\ ~ultima.erro
        /\ ~fault
        /\ registradores =
               [antes.registradores EXCEPT ![31] = <<0, (antes.pc + 1) % 65536>>]
        /\ pc = ((Buscada[1] % 256) * 256) + (Buscada[2] \div 256)
        /\ memoria = antes.memoria
        /\ flags = antes.flags

\* The spec's case: fetched at 10, register 31 ends 11.
C5_Witness ==
    /\ PassoDado
    /\ Buscada = Cod_J(JAL, 20)
    /\ antes.pc = 10
    /\ registradores[31] = <<0, 11>>
    /\ pc = 20

\* C6: a step on an R word (opcodes 0x01-0x0C) with fields ra, rb, rc leaves
\* in register ra, unless ra = 0, the ALU's result on the values rb and rc
\* had before the step, every other register and every memory word as
\* before, the flags zero = (result = 0), negative = bit 31 of the result,
\* carry and overflow as the ALU returned them, and PC one past the fetch
\* address, modulo 65536.  With ADD, ra = 2, rb = rc = 1 and R1 = 5: R2 = 10
\* and zero, carry, overflow false.
C6_Alu ==
    /\ (PassoDado /\ (Buscada[1] \div 256) \in 1..12) =>
          LET op == Buscada[1] \div 256
              ra == (Buscada[1] % 256) \div 8
              rb == ((Buscada[1] % 8) * 4) + (Buscada[2] \div 16384)
              rc == (Buscada[2] % 16384) \div 512
              r == ALU_executar(op, Registradores_ler(antes.registradores, rb),
                                Registradores_ler(antes.registradores, rc))
          IN  /\ ~ultima.erro
              /\ registradores = IF ra = 0 THEN antes.registradores
                                 ELSE [antes.registradores EXCEPT ![ra] = r.resultado]
              /\ flags = [zero |-> (r.resultado = <<0, 0>>),
                          neg |-> (r.resultado[1] >= 32768),
                          carry |-> r.carry,
                          overflow |-> r.overflow]
              /\ pc = (antes.pc + 1) % 65536
              /\ memoria = antes.memoria
    /\ (PassoDado /\ Buscada = Cod_R(ADD, 2, 1, 1) /\ antes.registradores[1] = <<0, 5>>) =>
          /\ registradores[2] = <<0, 10>>
          /\ ~flags.zero
          /\ ~flags.carry
          /\ ~flags.overflow

C6_Witness ==
    /\ PassoDado
    /\ Buscada = Cod_R(ADD, 2, 1, 1)
    /\ antes.registradores[1] = <<0, 5>>
    /\ antes.registradores[2] = <<0, 5>>
    /\ registradores[2] = <<0, 10>>

\* C7: register 0 holds 0 in every state: its stored cell is 0, ler(0)
\* returns 0 and dump() maps 0 to 0, after any calls of escrever, limpar,
\* passo and executar.
C7_R0 ==
    /\ registradores[0] = <<0, 0>>
    /\ Registradores_ler(registradores, 0) = <<0, 0>>
    /\ Registradores_dump(registradores)[0] = <<0, 0>>

C7_Witness ==
    /\ ultima.op = "escrever"
    /\ ~ultima.erro
    /\ ultima.num_reg = 0
    /\ ultima.valor # <<0, 0>>

\* C8: PC is in 0..65535 in every state; a step that fetches at 65535 and
\* whose instruction does not branch or jump ends with PC = 0.
C8_PC ==
    /\ pc \in 0..65535
    /\ (PassoDado /\ antes.pc = 65535
            /\ (Buscada = HALT \/ (Buscada[1] \div 256) \notin 18..22)) => pc = 0

C8_Witness == PassoDado /\ antes.pc = 65535 /\ Buscada = HALT /\ pc = 0

\* C9: every executar call ends; it makes at most max_ciclos steps, and it
\* makes a step only while the processor is neither halted nor faulted.
C9_Run ==
    /\ [](exec.ativo => <>(~exec.ativo))
    /\ [](exec.feitos <= exec.max)
    /\ [][(exec'.feitos # exec.feitos /\ exec.ativo) =>
             (~halted /\ ~fault /\ exec'.feitos = exec.feitos + 1)]_vars
    /\ [][(exec.ativo /\ Proc' # Proc) => exec'.feitos = exec.feitos + 1]_vars

C9_Witness ==
    /\ ultima.op = "executar"
    /\ ~exec.ativo
    /\ exec.feitos = 1
    /\ exec.max = 2
    /\ halted

\* C10: after reset every memory word is 0, every register is 0, the four
\* flags are false, PC = 0, IR = 0, halted and fault are false, and both
\* counters are 0.
C10_Reset ==
    (ultima.op = "resetar") =>
        /\ DOMAIN memoria = {}
        /\ \A e \in {0, 1, 7, 65535} : Memoria_ler(memoria, e) = <<0, 0>>
        /\ \A i \in 0..31 : registradores[i] = <<0, 0>>
        /\ flags = [neg |-> FALSE, zero |-> FALSE, carry |-> FALSE, overflow |-> FALSE]
        /\ pc = 0
        /\ ir = <<0, 0>>
        /\ ~halted
        /\ ~fault
        /\ ciclos = 0
        /\ instrucoes = 0

C10_Witness ==
    /\ ultima.op = "resetar"
    /\ antes.halted
    /\ antes.pc # 0
    /\ antes.memoria # <<>>
    /\ antes.ciclos > 0

\* ------------------------------------------------------------------------
\* The ALU on its own
\* ------------------------------------------------------------------------
\* Operands: 0, 1, 5, 16, 31, 32, 33, 0xFFFF, 0x10000, 0x12345678,
\* 0x7FFFFFFF, 0x80000000, 0x80000001, 0xABCD1234, 0xFFFFFFE0, 0xFFFFFFFF.
OperandosALU ==
    {<<0, 0>>, <<0, 1>>, <<0, 5>>, <<0, 16>>, <<0, 31>>, <<0, 32>>, <<0, 33>>,
     <<0, 65535>>, <<1, 0>>, <<4660, 22136>>, <<32767, 65535>>, <<32768, 0>>,
     <<32768, 1>>, <<43981, 4660>>, <<65535, 65504>>, <<65535, 65535>>}

\* A fresh processor and the arguments u of a call about to be made on one of
\* its components.
Entrada(u) ==
    /\ pc = Processor_init.pc
    /\ ir = Processor_init.ir
    /\ halted = Processor_init.halted
    /\ fault = Processor_init.fault
    /\ ciclos = Processor_init.ciclos
    /\ instrucoes = Processor_init.instrucoes
    /\ memoria = Processor_init.memoria
    /\ registradores = Processor_init.registradores
    /\ flags = Processor_init.flags
    /\ exec = Parado
    /\ ultima = u
    /\ antes = Processor_init
    /\ nOps = 0

\* An opcode and two operands are given; nothing was computed yet.
InitALU ==
    \E o \in ALU_operacoes, a \in OperandosALU, b \in OperandosALU :
        Entrada([op |-> "alu_entrada", erro |-> FALSE, opcode |-> o, a |-> a, b |-> b])

\* ALU.executar on the operands given: the tuple it returns is kept in res.
AluExecutar ==
    /\ ultima.op = "alu_entrada"
    /\ ultima' = [op |-> "alu", erro |-> ALU_executar_erro(ultima.opcode),
                  opcode |-> ultima.opcode, a |-> ultima.a, b |-> ultima.b,
                  res |-> ALU_executar(ultima.opcode, ultima.a, ultima.b)]
    /\ UNCHANGED <<pc, ir, halted, fault, ciclos, instrucoes, memoria, registradores,
                   flags, exec, antes, nOps>>

NextALU == AluExecutar

SpecALU == InitALU /\ [][NextALU]_vars

\* x * 2^s and x / 2^s on 32-bit words, by halves, for s in 0..31.
EsquerdaRef(x, s) ==
    IF s < 16
    THEN <<((x[1] * (2 ^ s)) + (x[2] \div (2 ^ (16 - s)))) % 65536,
           (x[2] * (2 ^ s)) % 65536>>
    ELSE <<(x[2] * (2 ^ (s - 16))) % 65536, 0>>

DireitaRef(x, s) ==
    IF s < 16
    THEN <<x[1] \div (2 ^ s), (x[2] \div (2 ^ s)) + ((x[1] % (2 ^ s)) * (2 ^ (16 - s)))>>
    ELSE <<0, x[1] \div (2 ^ (s - 16))>>

\* The word whose top s bits are 1 and whose other bits are 0, s in 1..31.
TopoRef(s) ==
    IF s <= 16 THEN <<65536 - (2 ^ (16 - s)), 0>>
    ELSE <<65535, 65536 - (2 ^ (32 - s))>>

\* C11: ADD returns result = (a + b) mod 2^32, carry iff a + b > 2^32 - 1,
\* overflow iff a and b have the same bit 31 and the result's bit 31 differs
\* from it; ADD(0x7FFFFFFF, 1) = (0x80000000, false, true).
C11_Add ==
    /\ (ultima.op = "alu" /\ ultima.opcode = ADD) =>
          LET a == ultima.a
              b == ultima.b
              lo == a[2] + b[2]
              hi == a[1] + b[1] + (lo \div 65536)
          IN  /\ ~ultima.erro
              /\ ultima.res.resultado = <<hi % 65536, lo % 65536>>
              /\ ultima.res.carry = (hi >= 65536)
              /\ ultima.res.overflow =
                     (/\ (a[1] >= 32768) = (b[1] >= 32768)
                      /\ (hi % 65536 >= 32768) # (a[1] >= 32768))
    /\ (ultima.op = "alu" /\ ultima.opcode = ADD
            /\ ultima.a = <<32767, 65535>> /\ ultima.b = <<0, 1>>) =>
          ultima.res = [resultado |-> <<32768, 0>>, carry |-> FALSE, overflow |-> TRUE]

C11_Witness ==
    /\ ultima.op = "alu"
    /\ ultima.opcode = ADD
    /\ ultima.a = <<65535, 65535>>
    /\ ultima.b = <<0, 1>>
    /\ ultima.res = [resultado |-> <<0, 0>>, carry |-> TRUE, overflow |-> FALSE]

\* C12: SUB returns result = (a - b) mod 2^32, carry iff a < b as unsigned
\* values, overflow iff a and b differ in bit 31 and the result's bit 31
\* differs from a's; SUB(0, 1) = (0xFFFFFFFF, true, false).
C12_Sub ==
    /\ (ultima.op = "alu" /\ ultima.opcode = SUB) =>
          LET a == ultima.a
              b == ultima.b
              menor == a[1] < b[1] \/ (a[1] = b[1] /\ a[2] < b[2])
              lo == (65536 + a[2]) - b[2]
              hi == ((65536 + a[1]) - b[1]) - (IF a[2] < b[2] THEN 1 ELSE 0)
          IN  /\ ~ultima.erro
              /\ ultima.res.resultado = <<hi % 65536, lo % 65536>>
              /\ ultima.res.carry = menor
              /\ ultima.res.overflow =
                     (/\ (a[1] >= 32768) # (b[1] >= 32768)
                      /\ (hi % 65536 >= 32768) # (a[1] >= 32768))
    /\ (ultima.op = "alu" /\ ultima.opcode = SUB
            /\ ultima.a = <<0, 0>> /\ ultima.b = <<0, 1>>) =>
          ultima.res = [resultado |-> <<65535, 65535>>, carry |-> TRUE, overflow |-> FALSE]

C12_Witness ==
    /\ ultima.op = "alu"
    /\ ultima.opcode = SUB
    /\ ultima.a = <<32768, 0>>
    /\ ultima.b = <<0, 1>>
    /\ ultima.res = [resultado |-> <<32767, 65535>>, carry |-> FALSE, overflow |-> TRUE]

C14_Sar ==
    (ultima.op = "alu" /\ ultima.opcode \in {SAR, SLR}) =>
        LET a == ultima.a
            b == ultima.b
            s == b[2] % 32
            baixo == DireitaRef(a, s)
            topo == TopoRef(s)
        IN  /\ (a[1] >= 32768 /\ s >= 1 /\ ultima.opcode = SAR) =>
                   ultima.res.resultado = <<baixo[1] + topo[1], baixo[2] + topo[2]>>
            /\ (a[1] >= 32768 /\ s >= 1 /\ ultima.opcode = SLR) =>
                   /\ ultima.res.resultado = baixo
                   /\ And32(ultima.res.resultado, topo) = <<0, 0>>
            /\ (a[1] < 32768) =>
                   /\ ALU_executar(SAR, a, b) = ALU_executar(SLR, a, b)
                   /\ ultima.res.resultado = baixo

C14_Witness ==
    /\ ultima.op = "alu"
    /\ ultima.opcode = SAR
    /\ ultima.a = <<32768, 1>>
    /\ ultima.b = <<0, 5>>
    /\ ultima.res.resultado = <<64512, 0>>

\* ------------------------------------------------------------------------
\* The decoder and the control unit on their own
\* ------------------------------------------------------------------------
\* Field values: registers, immediates, addresses, signed offsets.
RegsAmostra == {0, 1, 17, 31}

ImediatosAmostra == {0, 7, 4660, 32768, 65535}

EnderecosAmostra == {0, 20, 255, 256, 65535}

OffsetsAmostra == {0 - 8192, 0 - 1, 0, 1, 5, 8191}

\* The fields of one instruction, as the dictionary decodificar returns.
CamposAmostra ==
    [opcode : opcodes_alu, type : {"R"}, ra : RegsAmostra, rb : RegsAmostra, rc : RegsAmostra]
    \cup [opcode : {LOADH, LOADL, LW, SW}, type : {"I"}, ra : RegsAmostra,
          immediate : ImediatosAmostra]
    \cup [opcode : {JAL, J}, type : {"J"}, address : EnderecosAmostra]
    \cup [opcode : {JR}, type : {"JR"}, rc : RegsAmostra]
    \cup [opcode : {JEQ, JNE}, type : {"B"}, ra : RegsAmostra, rb : RegsAmostra,
          offset : OffsetsAmostra]

\* The fields packed at the bit positions of their format; a signed offset
\* goes into its field in two's complement.
Empacotar(c) ==
    CASE c.type = "R" -> Cod_R(c.opcode, c.ra, c.rb, c.rc)
      [] c.type = "I" -> Cod_I(c.opcode, c.ra, c.immediate)
      [] c.type = "J" -> Cod_J(c.opcode, c.address)
      [] c.type = "JR" -> Cod_JR(c.opcode, c.rc)
      [] c.type = "B" -> Cod_B(c.opcode, c.ra, c.rb, c.offset % 16384)

\* Words given as they are: every opcode byte from 0x00 to 0x18 and 0x7F,
\* 0x80, 0x81, 0xFF over zero fields, 0xFFFF0000, 0xFFFFFFFE, the HALT word,
\* and the integers 0x1FFFFFFFF and -1, which mask to it.
PalavrasBrutas ==
    {<<op * 256, 0>> : op \in (0..24) \cup {127, 128, 129, 255}}
    \cup {<<65535, 0>>, <<65535, 65534>>, HALT, <<131071, 65535>>, <<0 - 1, 65535>>}

InitDecoder ==
    \/ \E c \in CamposAmostra :
          Entrada([op |-> "decodificar_entrada", erro |-> FALSE,
                   palavra |-> Empacotar(c), campos |-> c])
    \/ \E w \in PalavrasBrutas :
          Entrada([op |-> "decodificar_entrada", erro |-> FALSE, palavra |-> w])

\* Decoder.decodificar on the word given: the dictionary it returns is kept
\* in decoded, unless it raised.
Decodificar ==
    /\ ultima.op = "decodificar_entrada"
    /\ LET e == Decoder_erro(ultima.palavra)
           feito == [ultima EXCEPT !.op = "decodificar", !.erro = e]
       IN  ultima' = IF e THEN feito
                     ELSE feito @@ [decoded |-> Decoder_decodificar(ultima.palavra)]
    /\ UNCHANGED <<pc, ir, halted, fault, ciclos, instrucoes, memoria, registradores,
                   flags, exec, antes, nOps>>

\* ControlUnit.obter_sinais_controle on the dictionary decoded: the signals
\* it returns are kept in sinais, unless it raised.
ObterSinais ==
    /\ ultima.op = "decodificar"
    /\ ~ultima.erro
    /\ LET e == ControlUnit_erro(ultima.decoded)
           feito == [ultima EXCEPT !.op = "sinais", !.erro = e]
       IN  ultima' = IF e THEN feito
                     ELSE feito @@
                          [sinais |-> ControlUnit_obter_sinais_controle(ultima.decoded)]
    /\ UNCHANGED <<pc, ir, halted, fault, ciclos, instrucoes, memoria, registradores,
                   flags, exec, antes, nOps>>

NextDecoder == Decodificar \/ ObterSinais

SpecDecoder == InitDecoder /\ [][NextDecoder]_vars

\* C15: the word made by packing the fields of an R, I, J, JR or B
\* instruction at their bit positions decodes, without error, to exactly
\* those fields, that opcode and that format.
C15_RoundTrip ==
    (ultima.op = "decodificar" /\ "campos" \in DOMAIN ultima) =>
        /\ ~ultima.erro
        /\ ultima.decoded = ultima.campos

C15_Witness ==
    /\ ultima.op = "decodificar"
    /\ "campos" \in DOMAIN ultima
    /\ ultima.campos.type = "B"
    /\ ultima.campos.offset = 0 - 8192
    /\ ultima.campos.rb = 17
    /\ ultima.decoded.offset = 0 - 8192

\* C16: decodificar returns the HALT dictionary, with no field, iff the word
\* masked to 32 bits is 0xFFFFFFFF; on any other word it returns iff bits
\* 31-24 are one of the 21 opcodes and raises otherwise, so opcodes 0x00 and
\* 0x0D and every other word with opcode 0xFF are rejected.
C16_Halt ==
    (ultima.op = "decodificar") =>
        LET m == <<ultima.palavra[1] % 65536, ultima.palavra[2]>>
            sentinela == (m = <<65535, 65535>>)
            byte == m[1] \div 256
        IN  /\ ultima.erro = (~sentinela /\ byte \notin OpcodesValidos)
            /\ ~ultima.erro =>
                  /\ (ultima.decoded.type = "HALT") = sentinela
                  /\ sentinela => DOMAIN ultima.decoded = {"opcode", "type"}
                  /\ ~sentinela => ultima.decoded.opcode = byte
            /\ (~sentinela /\ byte \in {0, 13, 255}) => ultima.erro

C16_Witness ==
    /\ ultima.op = "decodificar"
    /\ ultima.palavra = <<65535, 65534>>
    /\ ultima.erro

\* C17: the offset decoded from a B word is the two's-complement value of
\* bits 13-0: fields 0..8191 give themselves, fields 8192..16383 give the
\* field minus 16384, so the field of fourteen ones gives -1.
C17_Offset ==
    (ultima.op = "decodificar" /\ ~ultima.erro /\ (ultima.palavra[1] \div 256) \in {20, 21}) =>
        LET campo == ultima.palavra[2] % 16384
        IN  /\ ultima.decoded.type = "B"
            /\ ultima.decoded.offset = IF campo <= 8191 THEN campo ELSE campo - 16384
            /\ (campo = 16383) => ultima.decoded.offset = 0 - 1

C17_Witness ==
    /\ ultima.op = "decodificar"
    /\ ultima.palavra = Cod_B(JNE, 1, 31, 16383)
    /\ ultima.decoded.offset = 0 - 1

\* The signal record with everything off but the fields given.
Linha(reg_write, mem_read, mem_write, mem_to_reg, branch, jump, alu_src, pc_src, halt) ==
    [reg_write |-> reg_write, mem_read |-> mem_read, mem_write |-> mem_write,
     mem_to_reg |-> mem_to_reg, branch |-> branch, jump |-> jump,
     alu_src |-> alu_src, pc_src |-> pc_src, halt |-> halt]

\* C18: obter_sinais_controle returns, for every decoded instruction, the
\* record of the table, with alu_op set for the twelve ALU opcodes only, and
\* raises for none; the sets of ALU, branch and jump opcodes are pairwise
\* disjoint.
C18_Sinais ==
    /\ opcodes_alu \cap opcodes_branch = {}
    /\ opcodes_alu \cap opcodes_jump = {}
    /\ opcodes_branch \cap opcodes_jump = {}
    /\ (ultima.op = "sinais") =>
          LET d == ultima.decoded
              o == d.opcode
          IN  /\ ~ultima.erro
              /\ ultima.sinais =
                    IF d.type = "HALT"
                        THEN Linha(FALSE, FALSE, FALSE, FALSE, FALSE, FALSE, "reg", "halt", TRUE)
                    ELSE IF o \in 1..12
                        THEN [alu_op |-> o, reg_write |-> TRUE, mem_read |-> FALSE,
                              mem_write |-> FALSE, mem_to_reg |-> FALSE, branch |-> FALSE,
                              jump |-> FALSE, alu_src |-> "reg", pc_src |-> "inc",
                              halt |-> FALSE]
                    ELSE IF o \in {14, 15}
                        THEN Linha(TRUE, FALSE, FALSE, FALSE, FALSE, FALSE, "imm", "inc", FALSE)
                    ELSE IF o = 16
                        THEN Linha(TRUE, TRUE, FALSE, TRUE, FALSE, FALSE, "imm", "inc", FALSE)
                    ELSE IF o = 17
                        THEN Linha(FALSE, FALSE, TRUE, FALSE, FALSE, FALSE, "imm", "inc", FALSE)
                    ELSE IF o = 18
                        THEN Linha(TRUE, FALSE, FALSE, FALSE, FALSE, TRUE, "reg", "jump", FALSE)
                    ELSE IF o \in {19, 22}
                        THEN Linha(FALSE, FALSE, FALSE, FALSE, FALSE, TRUE, "reg", "jump", FALSE)
                    ELSE Linha(FALSE, FALSE, FALSE, FALSE, TRUE, FALSE, "reg", "branch", FALSE)

C18_Witness ==
    /\ ultima.op = "sinais"
    /\ ultima.decoded.opcode = JAL
    /\ ultima.sinais.reg_write
    /\ ultima.sinais.jump
    /\ ultima.sinais.alu_src = "reg"

\* C19, as stated: a program load that raises leaves every memory word and
\* PC as they were before the call.
C19_Original ==
    (ultima.op = "carregar_programa" /\ ultima.erro) =>
        /\ memoria = antes.memoria
        /\ pc = antes.pc

\* ------------------------------------------------------------------------
\* The memory and the register bank on their own
\* ------------------------------------------------------------------------
\* Addresses and register numbers, inside and outside their ranges.
EnderecosAcesso == {0 - 1, 7, 65535, 65536}

DadosAcesso == {PalavraDado, <<65537, 2>>}

NumerosAcesso == {0 - 1, 0, 31, 32}

EscritasAcesso == Escritas \cup {<<0 - 1, <<0, 5>>>>, <<31, <<0, 5>>>>}

\* Memoria.ler: the word returned is kept in res, unless it raised.
LerMemoria(endereco) ==
    /\ Livre
    /\ Chamada(IF Memoria_erro(endereco)
               THEN [op |-> "mem_ler", erro |-> TRUE, endereco |-> endereco]
               ELSE [op |-> "mem_ler", erro |-> FALSE, endereco |-> endereco,
                     res |-> Memoria_ler(memoria, endereco)])
    /\ UNCHANGED <<pc, ir, halted, fault, ciclos, instrucoes, memoria, registradores,
                   flags, exec>>

EscreverMemoria(endereco, dado) ==
    /\ Livre
    /\ memoria' = IF Memoria_erro(endereco) THEN memoria
                  ELSE Memoria_escrever(memoria, endereco, dado)
    /\ Chamada([op |-> "mem_escrever", erro |-> Memoria_erro(endereco),
                endereco |-> endereco, dado |-> dado])
    /\ UNCHANGED <<pc, ir, halted, fault, ciclos, instrucoes, registradores, flags, exec>>

\* Registradores.ler: the value returned is kept in res, unless it raised.
LerRegistrador(num_reg) ==
    /\ Livre
    /\ Chamada(IF Registradores_erro(num_reg)
               THEN [op |-> "reg_ler", erro |-> TRUE, num_reg |-> num_reg]
               ELSE [op |-> "reg_ler", erro |-> FALSE, num_reg |-> num_reg,
                     res |-> Registradores_ler(registradores, num_reg)])
    /\ UNCHANGED <<pc, ir, halted, fault, ciclos, instrucoes, memoria, registradores,
                   flags, exec>>

\* A memory holding the data word at address 7 and a sampled register bank.
InitAcesso ==
    \E r \in RegistradoresAmostra :
        Comeca([Processor_init EXCEPT
                    !.memoria = Memoria_por(Memoria_init, 7, PalavraDado),
                    !.registradores = r])

NextAcesso ==
    \/ \E e \in EnderecosAcesso : LerMemoria(e)
    \/ \E e \in EnderecosAcesso, d \in DadosAcesso : EscreverMemoria(e, d)
    \/ \E n \in NumerosAcesso : LerRegistrador(n)
    \/ \E w \in EscritasAcesso : EscreverRegistrador(w[1], w[2])

SpecAcesso == InitAcesso /\ [][NextAcesso]_vars

\* C20: Memoria.ler and escrever raise exactly for an address outside
\* 0..65535, Registradores.ler and escrever exactly for a number outside
\* 0..31; a call that raised left every memory word and every register as
\* before, so nothing was written at a wrapped index; a call that returned
\* read or wrote the word at the index given.
C20_Faixa ==
    /\ (ultima.op \in {"mem_ler", "mem_escrever"}) =>
          /\ ultima.erro = (ultima.endereco \notin 0..65535)
          /\ ultima.erro => (memoria = antes.memoria /\ registradores = antes.registradores)
    /\ (ultima.op \in {"reg_ler", "escrever"}) =>
          /\ ultima.erro = (ultima.num_reg \notin 0..31)
          /\ ultima.erro => (memoria = antes.memoria /\ registradores = antes.registradores)
    /\ (ultima.op = "mem_ler" /\ ~ultima.erro) =>
          /\ ultima.res = Memoria_ler(antes.memoria, ultima.endereco)
          /\ memoria = antes.memoria
    /\ (ultima.op = "mem_escrever" /\ ~ultima.erro) =>
          Memoria_ler(memoria, ultima.endereco) =
              <<ultima.dado[1] % 65536, ultima.dado[2]>>

C20_Witness ==
    /\ ultima.op = "mem_escrever"
    /\ ultima.erro
    /\ ultima.endereco = 65536
    /\ Memoria_ler(memoria, 0) = <<0, 0>>
    /\ Memoria_ler(antes.memoria, 65535) = <<1, 2>>

\* ------------------------------------------------------------------------
\* Program loads on their own
\* ------------------------------------------------------------------------
\* Word lists, one of them with the integers 0x100010002 and -1, and start
\* addresses inside and outside the memory.
ProgramasCarga ==
    {<<>>,
     <<HALT>>,
     <<<<65537, 2>>, <<0, 0>>, <<0 - 1, 65535>>>>,
     <<Cod_I(LOADL, 1, 5), PalavraDado>>,
     <<HALT, NaoInteiro>>}

EnderecosCarga == {0 - 1, 0, 6, 65534, 65535, 65536}

NextCarga ==
    \E i \in ProgramasCarga, e \in EnderecosCarga : CarregarPrograma(i, e)

\* Loads on a memory that holds the data word at address 7.
SpecCarga == InitAcesso /\ [][NextCarga]_vars

\* C21: a load whose start is outside 0..65535 or whose last address would
\* be above 65535 raises, writes no word and leaves PC as it was; a load that
\* returns leaves memory[start + i] = words[i] mod 2^32 for every i, every
\* other address as before, and PC = start; a load of integers inside the
\* range returns.
C21_Carga ==
    (ultima.op = "carregar_programa") =>
        LET ins == ultima.instrucoes
            e == ultima.endereco
            fora == e \notin 0..65535 \/ (e + Len(ins)) - 1 > 65535
            alvo == {(e + i) - 1 : i \in 1..Len(ins)}
        IN  /\ fora => (ultima.erro /\ memoria = antes.memoria /\ pc = antes.pc)
            /\ (~fora /\ \A i \in 1..Len(ins) : ins[i] # NaoInteiro) => ~ultima.erro
            /\ ultima.erro => pc = antes.pc
            /\ ~ultima.erro =>
                  /\ \A i \in 1..Len(ins) :
                         Memoria_ler(memoria, (e + i) - 1) = <<ins[i][1] % 65536, ins[i][2]>>
                  /\ \A a \in ((DOMAIN memoria) \cup (DOMAIN antes.memoria)) \ alvo :
                         Memoria_ler(memoria, a) = Memoria_ler(antes.memoria, a)
                  /\ pc = e

C21_Witness ==
    /\ ultima.op = "carregar_programa"
    /\ ~ultima.erro
    /\ ultima.endereco = 6
    /\ Len(ultima.instrucoes) = 3
    /\ Memoria_ler(antes.memoria, 7) = PalavraDado
    /\ memoria = (6 :> <<1, 2>>) @@ (8 :> <<65535, 65535>>)
    /\ pc = 6

\* ------------------------------------------------------------------------
\* The fetch stage on its own
\* ------------------------------------------------------------------------
\* Processor._stage_if called by itself.
EstagioIF ==
    /\ Livre
    /\ Fica(IF Processor_stage_if_erro(Proc) THEN Proc ELSE Processor_stage_if(Proc))
    /\ Chamada([op |-> "stage_if", erro |-> Processor_stage_if_erro(Proc)])
    /\ UNCHANGED exec

NextBusca == EstagioIF \/ Passo

SpecBusca == InitPasso /\ [][NextBusca]_vars

\* The value of register n as a read returns it.
ValorAntes(n) == IF n = 0 THEN <<0, 0>> ELSE antes.registradores[n]

\* C22: the fetch started at PC = p sets IR to the memory word at p and PC
\* to (p + 1) mod 65536 and changes no register, no memory word and no flag;
\* in a whole step IR is the word fetched, and the JAL link value and the
\* target of a taken branch are computed from the incremented PC.
C22_Busca ==
    /\ (ultima.op = "stage_if") =>
          /\ ~ultima.erro
          /\ ir = Memoria_ler(antes.memoria, antes.pc)
          /\ pc = (antes.pc + 1) % 65536
          /\ registradores = antes.registradores
          /\ memoria = antes.memoria
          /\ flags = antes.flags
          /\ halted = antes.halted
          /\ ciclos = antes.ciclos
    /\ PassoDado => ir = Buscada
    /\ (PassoDado /\ Buscada[1] \div 256 = 18) =>
          registradores[31] = <<0, (antes.pc + 1) % 65536>>
    /\ (PassoDado /\ Buscada[1] \div 256 = 20 /\ ValorAntes(1) = ValorAntes(2)
            /\ Buscada = Cod_B(JEQ, 1, 2, 5)) =>
          pc = (antes.pc + 6) % 65536

C22_Witness ==
    /\ ultima.op = "stage_if"
    /\ antes.pc = 65535
    /\ pc = 0
    /\ ir = HALT
    /\ antes.ir = <<0, 0>>
    /\ antes.flags.carry

\* C23: a JEQ or JNE step fetched at p, with fields ra, rb and signed offset
\* k, is taken iff reg[ra] = reg[rb] for JEQ and iff reg[ra] # reg[rb] for
\* JNE; taken, it ends with PC = (p + 1 + k) mod 65536, not taken with
\* PC = (p + 1) mod 65536; no register and no memory word changes.
C23_Branch ==
    (PassoDado /\ (Buscada[1] \div 256) \in {20, 21}) =>
        LET ra == (Buscada[1] % 256) \div 8
            rb == ((Buscada[1] % 8) * 4) + (Buscada[2] \div 16384)
            campo == Buscada[2] % 16384
            k == IF campo <= 8191 THEN campo ELSE campo - 16384
            iguais == ValorAntes(ra) = ValorAntes(rb)
            tomado == IF Buscada[1] \div 256 = 20 THEN iguais ELSE ~iguais
        IN  /\ ~ultima.erro
            /\ pc = IF tomado THEN (antes.pc + 1 + k) % 65536
                    ELSE (antes.pc + 1) % 65536
            /\ registradores = antes.registradores
            /\ memoria = antes.memoria

C23_Witness ==
    /\ PassoDado
    /\ Buscada = Cod_B(JNE, 1, 2, 8192)
    /\ antes.registradores[1] # antes.registradores[2]
    /\ antes.pc = 0
    /\ pc = 57345

C25_Load ==
    (PassoDado /\ (Buscada[1] \div 256) \in {14, 15}) =>
        LET ra == (Buscada[1] % 256) \div 8
            m == ((Buscada[1] % 8) * 8192) + (Buscada[2] \div 8)
            v == ValorAntes(ra)
            novo == IF Buscada[1] \div 256 = 14 THEN <<m, v[2]>> ELSE <<v[1], m>>
        IN  /\ ~ultima.erro
            /\ registradores = IF ra = 0 THEN antes.registradores
                               ELSE [antes.registradores EXCEPT ![ra] = novo]
            /\ registradores[0] = <<0, 0>>
            /\ memoria = antes.memoria
            /\ pc = (antes.pc + 1) % 65536

C25_Witness ==
    /\ PassoDado
    /\ Buscada = Cod_I(LOADH, 1, 65535)
    /\ antes.registradores[1] = <<0, 5>>
    /\ registradores[1] = <<65535, 5>>

\* C26: a JR step ends with PC = the low 16 bits of register rc, a J step
\* with PC = the address field; neither changes a register, register 31
\* included, nor a memory word.
C26_Jump ==
    (PassoDado /\ (Buscada[1] \div 256) \in {19, 22}) =>
        LET rc == (Buscada[1] % 256) \div 8
            address == ((Buscada[1] % 256) * 256) + (Buscada[2] \div 256)
        IN  /\ ~ultima.erro
            /\ pc = IF Buscada[1] \div 256 = 19 THEN ValorAntes(rc)[2] ELSE address
            /\ registradores = antes.registradores
            /\ memoria = antes.memoria

C26_Witness ==
    /\ PassoDado
    /\ Buscada = Cod_JR(JR, 31)
    /\ antes.registradores[31] = <<1, 2>>
    /\ pc = 2
    /\ registradores[31] = <<1, 2>>

\* C27: a step that executes LW, SW, LOADH, LOADL, JAL, JR, J, JEQ, JNE or
\* HALT leaves the four flags as they were before the step.
C27_Flags ==
    (PassoDado /\ (Buscada = HALT \/ (Buscada[1] \div 256) \in 14..22)) =>
        /\ ~ultima.erro
        /\ flags = antes.flags

C27_Witness ==
    /\ PassoDado
    /\ Buscada = Cod_I(LW, 1, 7)
    /\ antes.flags = [neg |-> FALSE, zero |-> TRUE, carry |-> TRUE, overflow |-> TRUE]
    /\ flags.carry
    /\ registradores[1] = PalavraDado

\* A pair that is an integer in 0..2^32 - 1.
Palavra32(v) == v[1] \in 0..65535 /\ v[2] \in 0..65535

Algarismos == <<"0", "1", "2", "3", "4", "5", "6", "7", "8", "9">>

Texto_address == <<"a", "d", "d", "r", "e", "s", "s">>

\* str(n), n >= 0.
RECURSIVE Decimal(_)
Decimal(n) ==
    IF n < 10 THEN <<Algarismos[n + 1]>>
    ELSE Decimal(n \div 10) \o <<Algarismos[(n % 10) + 1]>>

\* format(n, '0kb'), 0 <= n < 2^k.
RECURSIVE Binario(_, _)
Binario(n, k) ==
    IF k = 0 THEN <<>>
    ELSE Binario(n \div 2, k - 1) \o <<Algarismos[(n % 2) + 1]>>

\* escrever_arquivo_binario raises ValueError, before opening the file, for
\* a start address outside 0..65535.
FileHandler_escrever_erro_faixa(endereco_inicial) ==
    endereco_inicial < 0 \/ endereco_inicial > 65535

\* escrever_arquivo_binario raises: the range error, or TypeError inside the
\* loop for an element that is not an integer.
FileHandler_escrever_erro(lista, endereco_inicial) ==
    \/ FileHandler_escrever_erro_faixa(endereco_inicial)
    \/ PrimeiroNaoInteiro(lista) # 0

\* The lines escrever_arquivo_binario leaves in the file: the header with
\* the address in decimal, an empty line, and one line for each instruction
\* before the first that is not an integer, each masked to 32 bits and
\* printed as 32 binary digits in four groups of 8 joined by spaces.
FileHandler_escrever_arquivo_binario(lista, endereco_inicial) ==
    LET escritas == IF PrimeiroNaoInteiro(lista) = 0 THEN Len(lista)
                    ELSE PrimeiroNaoInteiro(lista) - 1
        bin_str(w) == LET instrucao == Mask32(w)
                      IN  Binario(instrucao[1], 16) \o Binario(instrucao[2], 16)
        formatada(b) == SubSeq(b, 1, 8) \o <<" ">> \o SubSeq(b, 9, 16) \o <<" ">>
                            \o SubSeq(b, 17, 24) \o <<" ">> \o SubSeq(b, 25, 32)
    IN  <<Texto_address \o <<" ">> \o Decimal(endereco_inicial), <<>>>>
            \o [i \in 1..escritas |-> formatada(bin_str(lista[i]))]

\* str.strip() for spaces.
RECURSIVE Strip(_)
Strip(l) ==
    IF l = <<>> THEN l
    ELSE IF Head(l) = " " THEN Strip(Tail(l))
    ELSE IF l[Len(l)] = " " THEN Strip(SubSeq(l, 1, Len(l) - 1))
    ELSE l

\* linha.split('#')[0]
RECURSIVE AntesDoComentario(_)
AntesDoComentario(l) ==
    IF l = <<>> \/ Head(l) = "#" THEN <<>>
    ELSE <<Head(l)>> \o AntesDoComentario(Tail(l))

\* linha.lower().startswith('address'); lower() is given for the letters of
\* the directive.
ComecaComAddress(l) ==
    LET lower(c) == CASE c = "A" -> "a" [] c = "D" -> "d" [] c = "R" -> "r"
                      [] c = "E" -> "e" [] c = "S" -> "s" [] OTHER -> c
    IN  /\ Len(l) >= Len(Texto_address)
        /\ [i \in 1..Len(Texto_address) |-> lower(l[i])] = Texto_address

\* str.split(): the maximal runs without a space.
RECURSIVE Split(_, _)
Split(l, atual) ==
    IF l = <<>> THEN (IF atual = <<>> THEN <<>> ELSE <<atual>>)
    ELSE IF Head(l) = " "
         THEN (IF atual = <<>> THEN <<>> ELSE <<atual>>) \o Split(Tail(l), <<>>)
    ELSE Split(Tail(l), Append(atual, Head(l)))

\* replace(c, '') for each c of cs.
SemCaracteres(l, cs) == SelectSeq(l, LAMBDA c : c \notin cs)

\* all(c in '01' for c in s)
Todos01(s) == \A i \in 1..Len(s) : s[i] \in {"0", "1"}

\* The digit a character stands for, 10 when it is none.
ValorAlgarismo(c) ==
    IF \E d \in 1..10 : Algarismos[d] = c
    THEN (CHOOSE d \in 1..10 : Algarismos[d] = c) - 1
    ELSE 10

\* int(s, base) for a string of digits below the base.
RECURSIVE ValorBase(_, _)
ValorBase(s, base) ==
    IF s = <<>> THEN 0
    ELSE ValorBase(SubSeq(s, 1, Len(s) - 1), base) * base + ValorAlgarismo(s[Len(s)])

\* The address of a directive: read in base 2 when every character is 0 or
\* 1, in base 10 otherwise.
Endereco_da_diretiva(endereco_str) ==
    IF Todos01(endereco_str) THEN ValorBase(endereco_str, 2)
    ELSE ValorBase(endereco_str, 10)

\* The conversion of the address raises ValueError: int() of an empty string
\* or of a string that is not a number, or a value outside 0..65535.
Endereco_da_diretiva_erro(endereco_str) ==
    \/ endereco_str = <<>>
    \/ \E i \in 1..Len(endereco_str) : ValorAlgarismo(endereco_str[i]) = 10
    \/ Len(endereco_str) > 5 /\ ~Todos01(endereco_str)
    \/ Endereco_da_diretiva(endereco_str) > 65535

\* The loop of ler_arquivo_binario over the lines left to read.
RECURSIVE LerLinhas(_, _, _)
LerLinhas(linhas, lidas, endereco_inicial) ==
    IF linhas = <<>>
    THEN [erro |-> FALSE, instrucoes |-> lidas, endereco_inicial |-> endereco_inicial]
    ELSE
        LET linha == Strip(AntesDoComentario(Strip(Head(linhas))))
            partes == Split(linha, <<>>)
            endereco_str == SemCaracteres(partes[2], {"_", " "})
            linha_limpa == SemCaracteres(linha, {" ", "_"})
            instrucao == <<ValorBase(SubSeq(linha_limpa, 1, 16), 2),
                           ValorBase(SubSeq(linha_limpa, 17, 32), 2)>>
        IN  IF linha = <<>> THEN LerLinhas(Tail(linhas), lidas, endereco_inicial)
            ELSE IF ComecaComAddress(linha)
            THEN IF Len(partes) # 2 THEN [erro |-> TRUE]
                 ELSE IF Endereco_da_diretiva_erro(endereco_str) THEN [erro |-> TRUE]
                 ELSE LerLinhas(Tail(linhas), lidas, Endereco_da_diretiva(endereco_str))
            ELSE IF ~Todos01(linha_limpa) THEN [erro |-> TRUE]
            ELSE IF Len(linha_limpa) # 32 THEN [erro |-> TRUE]
            ELSE LerLinhas(Tail(linhas), Append(lidas, instrucao),
                           endereco_inicial)

\* ler_arquivo_binario on a file that exists: the error, or the pair
\* (instrucoes, endereco_inicial).
FileHandler_ler_arquivo_binario(linhas) == LerLinhas(linhas, <<>>, 0)

\* Start addresses written; the instruction lists are those of the loads.
EnderecosArquivo == {0 - 1, 0, 1, 2, 9, 10, 11, 12, 100, 101, 102, 1010, 4660, 11111,
                     65535, 65536}

InitArquivo ==
    \E i \in ProgramasCarga, e \in EnderecosArquivo :
        Entrada([op |-> "arquivo_entrada", erro |-> FALSE, instrucoes |-> i, endereco |-> e])

\* FileHandler.escrever_arquivo_binario with the arguments given: the file it
\* leaves is kept in arquivo; there is none when the address is refused.
EscreverArquivo ==
    /\ ultima.op = "arquivo_entrada"
    /\ LET feito == [ultima EXCEPT
                        !.op = "escrever_arquivo",
                        !.erro = FileHandler_escrever_erro(ultima.instrucoes, ultima.endereco)]
       IN  ultima' =
               IF FileHandler_escrever_erro_faixa(ultima.endereco) THEN feito
               ELSE feito @@
                    [arquivo |-> FileHandler_escrever_arquivo_binario(
                                     ultima.instrucoes, ultima.endereco)]
    /\ UNCHANGED <<pc, ir, halted, fault, ciclos, instrucoes, memoria, registradores,
                   flags, exec, antes, nOps>>

\* FileHandler.ler_arquivo_binario on the file written: what it returns is
\* kept in lido; escrita_erro keeps whether the writer had raised.
LerArquivo ==
    /\ ultima.op = "escrever_arquivo"
    /\ "arquivo" \in DOMAIN ultima
    /\ LET r == FileHandler_ler_arquivo_binario(ultima.arquivo)
       IN  ultima' = [op |-> "ler_arquivo", erro |-> r.erro,
                      escrita_erro |-> ultima.erro,
                      instrucoes |-> ultima.instrucoes, endereco |-> ultima.endereco,
                      arquivo |-> ultima.arquivo, lido |-> r]
    /\ UNCHANGED <<pc, ir, halted, fault, ciclos, instrucoes, memoria, registradores,
                   flags, exec, antes, nOps>>

NextArquivo == EscreverArquivo \/ LerArquivo

SpecArquivo == InitArquivo /\ [][NextArquivo]_vars

\* C29, as stated: reading the file the binary-image writer produced for an
\* instruction list and a start address in 0..65535 returns the same words,
\* each mod 2^32, in the same order, and the same start address.
C29_Original ==
    (ultima.op = "ler_arquivo" /\ ~ultima.escrita_erro) =>
        /\ ~ultima.erro
        /\ ultima.lido.instrucoes =
               [i \in 1..Len(ultima.instrucoes) |-> Mask32(ultima.instrucoes[i])]
        /\ ultima.lido.endereco_inicial = ultima.endereco

\* C30: a step from a state with PC in 0..65535 raises exactly when the word
\* fetched is not HALT and its opcode is outside the table: the fetch does
\* not raise; the control unit accepts every dictionary the decoder returns;
\* an alu_op it emits is one of the ALU's twelve opcodes; the register
\* numbers and the LW/SW address of the decoded fields are in range.
C30_Erros ==
    PassoDado =>
        /\ antes.pc \in 0..65535
        /\ ~Processor_stage_if_erro(antes)
        /\ ultima.erro = (Buscada # HALT /\ (Buscada[1] \div 256) \notin OpcodesValidos)
        /\ ~Decoder_erro(Buscada) =>
              LET d == Decoder_decodificar(Buscada)
                  sinais == ControlUnit_obter_sinais_controle(d)
              IN  /\ ~ControlUnit_erro(d)
                  /\ ("alu_op" \in DOMAIN sinais) => sinais.alu_op \in 1..12
                  /\ \A k \in {"ra", "rb", "rc"} \cap DOMAIN d : d[k] \in 0..31
                  /\ ("immediate" \in DOMAIN d) => d.immediate \in 0..65535
                  /\ ~fault

C30_Witness ==
    /\ PassoDado
    /\ ~ultima.erro
    /\ antes.pc = 65535
    /\ Buscada = Cod_I(SW, 3, 65535)
    /\ ~fault

====
